---- MODULE Spec2Model ----
(***************************************************************************)
(* Furniture catalog: the in-memory ProductStore, the product service      *)
(* (productList / productGet / productCreate / productUpdate /             *)
(* productDelete), the zod validation schemas and the Express controller   *)
(* that maps thrown errors to HTTP answers.                                *)
(*                                                                         *)
(* Encoding of JavaScript values.  TLC cannot compare values of different  *)
(* shapes, so an optional or nullable value is a sequence of length 0 or   *)
(* 1: Undefined / Null are <<>>, a present value v is <<v>>.  A request    *)
(* body key holds Undefined or Def(v); a nullable field holds Null or      *)
(* Val(v).  Time is counted in whole hours since the epoch.                *)
(***************************************************************************)
EXTENDS Integers, Sequences, FiniteSets, TLC

VARIABLES
    records,     \* ProductStore.records: the Map's entries in iteration (insertion) order
    currentId,   \* ProductStore.currentId
    now,         \* the wall clock read by new Date(), in hours
    call,        \* the HTTP exchange being answered: request, thrown error, response
    createdIds,  \* history: the ids returned by successful productCreate calls, in order
    untouched,   \* history: the records returned by productCreate that were neither
                 \* updated nor deleted since
    catalog,     \* useCatalogStore: the CatalogState held by the browser
    uiLast,      \* history: the last store action of the catalog, and whether it
                 \* acted on a page after the first
    requests     \* the service calls of concurrently issued requests, one per slot

vars == <<records, currentId, now, call, createdIds, untouched, catalog, uiLast, requests>>

-----------------------------------------------------------------------------
(* Bounds of the model *)

\* PRODUCT_DEFAULTS.MAX_RECORDS is 10000 in the source (productDefaults.ts:27);
\* it is scaled down so that the capacity branch of ProductStore.add is reached.
MAX_RECORDS == 2
\* cap on the identifier counter (getNextId itself is unbounded)
MaxId == 3
\* the pages requested from productList
MaxPage == 3
\* how many records of a listed store are chosen freely
MaxVaried == 2
\* the pages the pagination control of the catalog page asks for
MaxUiPage == 2

-----------------------------------------------------------------------------
(* Program constants *)

NAME_MAX_LENGTH == 60
DESCRIPTION_MAX_LENGTH == 500
SHORT_DESCRIPTION_MAX_LENGTH == 150
DIMENSIONS_MAX_LENGTH == 50
\* 1000 * 60 * 60 * 24 ms, in the model's unit of one hour
HOURS_PER_DAY == 24
\* daysSinceCreation <= 30
NEW_DAYS == 30
DEFAULT_AVAILABLE == TRUE
DEFAULT_FEATURED == FALSE
DEFAULT_ON_SALE == FALSE

PRODUCT_CATEGORIES ==
    {"sala de estar", "quarto", "cozinha", "escritório", "banheiro", "área externa"}

-----------------------------------------------------------------------------
(* JavaScript values *)

Undefined == <<>>
Def(v) == <<v>>
Null == <<>>
Val(v) == <<v>>

\* ToBoolean of an array: every object is truthy, the empty array included
ArrayTruthy(a) == TRUE
\* a || b on an array-valued a
OrArray(a, b) == IF ArrayTruthy(a) THEN a ELSE b
\* x ?? d on an optional value
Coalesce(x, d) == IF x = Undefined THEN d ELSE x[1]

\* Date.prototype.toISOString: the calendar fields of the instant (day, hour)
ToISOString(t) == <<t \div HOURS_PER_DAY, t % HOURS_PER_DAY>>
\* new Date(isoString).getTime()
DateGetTime(s) == s[1] * HOURS_PER_DAY + s[2]

\* z.string().url(): the strings of the model that parse as URLs
IsUrl(s) == s \in {"https://cdn.example.com/a.jpg", "https://cdn.example.com/b.jpg",
                   "https://cdn.example.com/c.jpg"}

-----------------------------------------------------------------------------
(* productValidation: the zod schemas *)

ValidName(x) ==
    /\ x # Undefined
    /\ Len(x[1]) >= 1
    /\ Len(x[1]) <= NAME_MAX_LENGTH

ValidNullableString(x, max) ==
    /\ x # Undefined
    /\ (x[1] = Null \/ Len(x[1][1]) <= max)

ValidMainImage(x) == x # Undefined /\ IsUrl(x[1])

ValidImages(x) == x = Undefined \/ \A i \in 1..Len(x[1]) : IsUrl(x[1][i])

ValidPrice(x) ==
    /\ x # Undefined
    /\ (x[1] = Null \/ x[1][1] > 0)

ValidCategory(x) == x # Undefined /\ x[1] \in PRODUCT_CATEGORIES

\* .optional().default(d)
WithDefault(x, d) == IF x = Undefined THEN d ELSE x[1]

\* createSchema.safeParse(body): unknown keys (isNew) are stripped
createSchema(body) ==
    LET success ==
            /\ ValidName(body.name)
            /\ ValidNullableString(body.description, DESCRIPTION_MAX_LENGTH)
            /\ ValidMainImage(body.mainImage)
            /\ ValidImages(body.images)
            /\ ValidPrice(body.price)
            /\ ValidCategory(body.category)
            /\ ValidNullableString(body.shortDescription, SHORT_DESCRIPTION_MAX_LENGTH)
            /\ ValidNullableString(body.dimensions, DIMENSIONS_MAX_LENGTH)
    IN  IF ~success THEN [success |-> FALSE, data |-> <<>>]
        ELSE [success |-> TRUE,
              data |-> << [name |-> body.name[1],
                           description |-> body.description[1],
                           mainImage |-> body.mainImage[1],
                           images |-> WithDefault(body.images, <<>>),
                           price |-> body.price[1],
                           category |-> body.category[1],
                           shortDescription |-> body.shortDescription[1],
                           dimensions |-> body.dimensions[1],
                           featured |-> WithDefault(body.featured, FALSE),
                           onSale |-> WithDefault(body.onSale, FALSE),
                           available |-> WithDefault(body.available, TRUE)] >>]

\* mutant: the update payload is validated as a creation payload, whose flags
\* are optional
updateSchema_FlagsOptional(body) == createSchema(body)

\* updateSchema.safeParse(body): featured, onSale and available are required
updateSchema(body) ==
    LET success ==
            /\ ValidName(body.name)
            /\ ValidNullableString(body.description, DESCRIPTION_MAX_LENGTH)
            /\ ValidMainImage(body.mainImage)
            /\ ValidImages(body.images)
            /\ ValidPrice(body.price)
            /\ ValidCategory(body.category)
            /\ ValidNullableString(body.shortDescription, SHORT_DESCRIPTION_MAX_LENGTH)
            /\ ValidNullableString(body.dimensions, DIMENSIONS_MAX_LENGTH)
            /\ body.featured # Undefined
            /\ body.onSale # Undefined
            /\ body.available # Undefined
    IN  IF ~success THEN [success |-> FALSE, data |-> <<>>]
        ELSE [success |-> TRUE,
              data |-> << [name |-> body.name[1],
                           description |-> body.description[1],
                           mainImage |-> body.mainImage[1],
                           images |-> WithDefault(body.images, <<>>),
                           price |-> body.price[1],
                           category |-> body.category[1],
                           shortDescription |-> body.shortDescription[1],
                           dimensions |-> body.dimensions[1],
                           featured |-> body.featured[1],
                           onSale |-> body.onSale[1],
                           available |-> body.available[1]] >>]

\* mutant: the identifier is not required to be positive
paramsSchema_AnyInteger(rawId) == [success |-> TRUE, data |-> <<rawId>>]

\* paramsSchema.safeParse(params): z.coerce.number().int().positive()
paramsSchema(rawId) ==
    IF rawId > 0 THEN [success |-> TRUE, data |-> <<rawId>>]
    ELSE [success |-> FALSE, data |-> <<>>]

-----------------------------------------------------------------------------
(* ProductStore *)

\* the position of the entry keyed id in the Map, 0 when there is none
IndexOf(recs, id) ==
    IF \E i \in 1..Len(recs) : recs[i].id = id
    THEN CHOOSE i \in 1..Len(recs) : recs[i].id = id
    ELSE 0

\* Map.prototype.set: an existing key keeps its place, a new key goes last
MapSet(recs, id, rec) ==
    IF IndexOf(recs, id) # 0
    THEN [recs EXCEPT ![IndexOf(recs, id)] = rec]
    ELSE Append(recs, rec)

\* mutant: the counter is returned without being advanced
getNextId_NoIncrement(cid) == cid

getNextId(cid) == cid + 1

getAll(recs) == recs

\* mutant: the lookup returns the first entry of the Map for any stored key
getById_FirstEntry(recs, id) ==
    IF IndexOf(recs, id) # 0 THEN Def(recs[1]) ELSE Undefined

getById(recs, id) ==
    IF IndexOf(recs, id) # 0 THEN Def(recs[IndexOf(recs, id)]) ELSE Undefined

exists(recs, id) == IndexOf(recs, id) # 0

count(recs) == Len(recs)

\* mutant: the capacity test is off by one (size > MAX_RECORDS)
storeAdd_OffByOne(recs, record) ==
    IF Len(recs) > MAX_RECORDS
    THEN [threw |-> TRUE, records |-> recs]
    ELSE [threw |-> FALSE, records |-> MapSet(recs, record.id, record)]

\* add: throws a plain Error when the Map is at or above MAX_RECORDS
storeAdd(recs, record) ==
    IF Len(recs) >= MAX_RECORDS
    THEN [threw |-> TRUE, records |-> recs]
    ELSE [threw |-> FALSE, records |-> MapSet(recs, record.id, record)]

\* mutant: the spread is written the other way round, { ...data, ...existing }
Spread_ExistingWins(existing, data) ==
    [k \in DOMAIN existing \cup DOMAIN data |->
        IF k \in DOMAIN existing THEN existing[k] ELSE data[k]]

\* { ...existing, ...data }
Spread(existing, data) ==
    [k \in DOMAIN existing \cup DOMAIN data |->
        IF k \in DOMAIN data THEN data[k] ELSE existing[k]]

storeUpdate(recs, id, data) ==
    IF IndexOf(recs, id) = 0
    THEN [updated |-> Undefined, records |-> recs]
    ELSE LET updated == Spread(recs[IndexOf(recs, id)], data)
         IN  [updated |-> Def(updated), records |-> MapSet(recs, id, updated)]

\* mutant: delete reports the key but leaves the entry in the Map
storeDelete_KeepsEntry(recs, id) ==
    [deleted |-> exists(recs, id), records |-> recs]

storeDelete(recs, id) ==
    [deleted |-> exists(recs, id),
     records |-> SelectSeq(recs, LAMBDA r : r.id # id)]

-----------------------------------------------------------------------------
(* Errors *)

NoError == [kind |-> "none", code |-> "", statusCode |-> 0]
\* new ServiceError(code, message, statusCode, details)
ServiceError(code, statusCode) ==
    [kind |-> "ServiceError", code |-> code, statusCode |-> statusCode]
\* mutant: the capacity fault is raised as a validation ServiceError
PlainError_AsValidation ==
    [kind |-> "ServiceError", code |-> "VALIDATION_ERROR", statusCode |-> 400]

\* new Error('Maximum products limit reached'): no code, no statusCode
PlainError == [kind |-> "Error", code |-> "", statusCode |-> 0]

\* utils.isServiceError
isServiceError(error) == error.kind = "ServiceError"

-----------------------------------------------------------------------------
(* Product service *)

\* the result of a service call: what it threw, what it returned, and the
\* store it leaves behind
Outcome(error, value, recs, cid) ==
    [error |-> error, value |-> value, records |-> recs, currentId |-> cid]

\* mutant: the flags are set to the defaults whatever the payload says
newProduct_FlagsFromDefaults(id, params, nowIso) ==
    [id |-> id,
     name |-> params.name,
     description |-> params.description,
     mainImage |-> params.mainImage,
     images |-> OrArray(params.images, <<>>),
     price |-> params.price,
     category |-> params.category,
     shortDescription |-> params.shortDescription,
     dimensions |-> params.dimensions,
     featured |-> DEFAULT_FEATURED,
     isNew |-> TRUE,
     onSale |-> DEFAULT_ON_SALE,
     available |-> DEFAULT_AVAILABLE,
     dateCreated |-> nowIso,
     dateModified |-> nowIso]

\* the entity productCreate builds from the validated payload
newProduct(id, params, nowIso) ==
    [id |-> id,
     name |-> params.name,
     description |-> params.description,
     mainImage |-> params.mainImage,
     images |-> OrArray(params.images, <<>>),
     price |-> params.price,
     category |-> params.category,
     shortDescription |-> params.shortDescription,
     dimensions |-> params.dimensions,
     featured |-> Coalesce(Def(params.featured), DEFAULT_FEATURED),
     isNew |-> TRUE,
     onSale |-> Coalesce(Def(params.onSale), DEFAULT_ON_SALE),
     available |-> Coalesce(Def(params.available), DEFAULT_AVAILABLE),
     dateCreated |-> nowIso,
     dateModified |-> nowIso]

productGet(recs, cid, rawId) ==
    LET validation == paramsSchema(rawId) IN
    IF ~validation.success
    THEN Outcome(ServiceError("VALIDATION_ERROR", 400), Undefined, recs, cid)
    ELSE
        LET product == getById(recs, validation.data[1]) IN
        IF product = Undefined
        THEN Outcome(ServiceError("NOT_FOUND", 404), Undefined, recs, cid)
        ELSE Outcome(NoError, product, recs, cid)

productCreate(recs, cid, body, t) ==
    LET validation == createSchema(body) IN
    IF ~validation.success
    THEN Outcome(ServiceError("VALIDATION_ERROR", 400), Undefined, recs, cid)
    ELSE
        LET id == getNextId(cid)
            product == newProduct(id, validation.data[1], ToISOString(t))
            added == storeAdd(recs, product)
        IN  IF added.threw
            THEN Outcome(PlainError, Undefined, added.records, id)
            ELSE Outcome(NoError, Def(product), added.records, id)

\* Math.floor((now - createdDate) / (1000 * 60 * 60 * 24))
daysSinceCreation(t, dateCreated) == (t - DateGetTime(dateCreated)) \div HOURS_PER_DAY

\* mutant: the threshold is off by one day
stillNew_OffByOne(t, dateCreated) == daysSinceCreation(t, dateCreated) <= NEW_DAYS + 1

stillNew(t, dateCreated) == daysSinceCreation(t, dateCreated) <= NEW_DAYS

productUpdate(recs, cid, rawId, body, t) ==
    LET paramsValidation == paramsSchema(rawId)
        bodyValidation == updateSchema(body)
    IN
    IF ~paramsValidation.success
    THEN Outcome(ServiceError("VALIDATION_ERROR", 400), Undefined, recs, cid)
    ELSE IF ~bodyValidation.success
    THEN Outcome(ServiceError("VALIDATION_ERROR", 400), Undefined, recs, cid)
    ELSE
        LET id == paramsValidation.data[1]
            found == getById(recs, id)
        IN
        IF found = Undefined
        THEN Outcome(ServiceError("NOT_FOUND", 404), Undefined, recs, cid)
        ELSE
            LET existing == found[1]
                updateData == bodyValidation.data[1]
                isNew == stillNew(t, existing.dateCreated)
                res == storeUpdate(recs, id,
                         [name |-> updateData.name,
                          description |-> updateData.description,
                          mainImage |-> updateData.mainImage,
                          images |-> OrArray(updateData.images, existing.images),
                          price |-> updateData.price,
                          category |-> updateData.category,
                          shortDescription |-> updateData.shortDescription,
                          dimensions |-> updateData.dimensions,
                          featured |-> updateData.featured,
                          isNew |-> isNew,
                          onSale |-> updateData.onSale,
                          available |-> updateData.available,
                          dateModified |-> ToISOString(t)])
            IN  Outcome(NoError, res.updated, res.records, cid)

productDelete(recs, cid, rawId) ==
    LET validation == paramsSchema(rawId) IN
    IF ~validation.success
    THEN Outcome(ServiceError("VALIDATION_ERROR", 400), Undefined, recs, cid)
    ELSE IF ~exists(recs, validation.data[1])
    THEN Outcome(ServiceError("NOT_FOUND", 404), Undefined, recs, cid)
    ELSE Outcome(NoError, Undefined, storeDelete(recs, validation.data[1]).records, cid)

-----------------------------------------------------------------------------
(* productList: validation, filters, sort, pagination, projection *)

PAGE_SIZES == {12, 24, 36, 48}
DEFAULT_PAGE == 1
DEFAULT_PAGE_SIZE == 12
SORT_VALUES == {"newest", "name-asc", "name-desc", "price-asc", "price-desc"}

\* a query string; every key holds Undefined or Def(raw value)
Query(category, sort, page, pageSize, available, featured) ==
    [category |-> category, sort |-> sort, page |-> page, pageSize |-> pageSize,
     available |-> available, featured |-> featured]

NoQuery == Query(Undefined, Undefined, Undefined, Undefined, Undefined, Undefined)

\* mutant: the flag is the truthiness of the string, Boolean(val)
CoerceFlag_Truthy(x) == IF x = Undefined THEN Undefined ELSE Def(x[1] # "")

\* z.string().transform((val) => val === 'true').optional()
CoerceFlag(x) == IF x = Undefined THEN Undefined ELSE Def(x[1] = "true")

\* mutant: the refinement of pageSize to the four page sizes is missing
listQuerySchema_AnyPageSize(query) ==
    LET success ==
            /\ query.category = Undefined \/ query.category[1] \in PRODUCT_CATEGORIES
            /\ query.sort = Undefined \/ query.sort[1] \in SORT_VALUES
            /\ query.page = Undefined \/ query.page[1] > 0
    IN  IF ~success THEN [success |-> FALSE, data |-> <<>>]
        ELSE [success |-> TRUE,
              data |-> << [category |-> query.category,
                           sort |-> query.sort,
                           page |-> WithDefault(query.page, DEFAULT_PAGE),
                           pageSize |-> WithDefault(query.pageSize, DEFAULT_PAGE_SIZE),
                           available |-> CoerceFlag(query.available),
                           featured |-> CoerceFlag(query.featured)] >>]

\* listQuerySchema.safeParse(query)
listQuerySchema(query) ==
    LET success ==
            /\ query.category = Undefined \/ query.category[1] \in PRODUCT_CATEGORIES
            /\ query.sort = Undefined \/ query.sort[1] \in SORT_VALUES
            /\ query.page = Undefined \/ query.page[1] > 0
            /\ query.pageSize = Undefined \/ query.pageSize[1] \in PAGE_SIZES
    IN  IF ~success THEN [success |-> FALSE, data |-> <<>>]
        ELSE [success |-> TRUE,
              data |-> << [category |-> query.category,
                           sort |-> query.sort,
                           page |-> WithDefault(query.page, DEFAULT_PAGE),
                           pageSize |-> WithDefault(query.pageSize, DEFAULT_PAGE_SIZE),
                           available |-> CoerceFlag(query.available),
                           featured |-> CoerceFlag(query.featured)] >>]

\* the collation order of the names of the model
CollationRank(name) ==
    CASE name = "Armario" -> 1
      [] name = "Mesa" -> 2
      [] name = "Sofa" -> 3
      [] OTHER -> 4

\* String.prototype.localeCompare
localeCompare(a, b) ==
    IF CollationRank(a) < CollationRank(b) THEN -1
    ELSE IF CollationRank(a) > CollationRank(b) THEN 1
    ELSE 0

\* mutant: the featured-first test is missing
compare_NoFeaturedFirst(a, b, sortOrder) ==
    CASE sortOrder = "newest" -> DateGetTime(b.dateCreated) - DateGetTime(a.dateCreated)
      [] sortOrder = "name-asc" -> localeCompare(a.name, b.name)
      [] sortOrder = "name-desc" -> localeCompare(b.name, a.name)
      [] sortOrder = "price-asc" ->
            IF a.price = Null THEN 1
            ELSE IF b.price = Null THEN -1
            ELSE a.price[1] - b.price[1]
      [] sortOrder = "price-desc" ->
            IF a.price = Null THEN 1
            ELSE IF b.price = Null THEN -1
            ELSE b.price[1] - a.price[1]
      [] OTHER -> 0

\* mutant: a null price is compared as the number 0
compare_NullAsZero(a, b, sortOrder) ==
    LET num(p) == IF p = Null THEN 0 ELSE p[1] IN
    IF a.featured /\ ~b.featured THEN -1
    ELSE IF ~a.featured /\ b.featured THEN 1
    ELSE CASE sortOrder = "newest" -> DateGetTime(b.dateCreated) - DateGetTime(a.dateCreated)
           [] sortOrder = "name-asc" -> localeCompare(a.name, b.name)
           [] sortOrder = "name-desc" -> localeCompare(b.name, a.name)
           [] sortOrder = "price-asc" -> num(a.price) - num(b.price)
           [] sortOrder = "price-desc" -> num(b.price) - num(a.price)
           [] OTHER -> 0

\* mutant: newest compares the creation dates the other way round
compare_OldestFirst(a, b, sortOrder) ==
    IF a.featured /\ ~b.featured THEN -1
    ELSE IF ~a.featured /\ b.featured THEN 1
    ELSE CASE sortOrder = "newest" -> DateGetTime(a.dateCreated) - DateGetTime(b.dateCreated)
           [] sortOrder = "name-asc" -> localeCompare(a.name, b.name)
           [] sortOrder = "name-desc" -> localeCompare(b.name, a.name)
           [] sortOrder = "price-asc" ->
                 IF a.price = Null THEN 1
                 ELSE IF b.price = Null THEN -1
                 ELSE a.price[1] - b.price[1]
           [] sortOrder = "price-desc" ->
                 IF a.price = Null THEN 1
                 ELSE IF b.price = Null THEN -1
                 ELSE b.price[1] - a.price[1]
           [] OTHER -> 0

\* the comparator handed to products.sort
compare(a, b, sortOrder) ==
    IF a.featured /\ ~b.featured THEN -1
    ELSE IF ~a.featured /\ b.featured THEN 1
    ELSE CASE sortOrder = "newest" -> DateGetTime(b.dateCreated) - DateGetTime(a.dateCreated)
           [] sortOrder = "name-asc" -> localeCompare(a.name, b.name)
           [] sortOrder = "name-desc" -> localeCompare(b.name, a.name)
           [] sortOrder = "price-asc" ->
                 IF a.price = Null THEN 1
                 ELSE IF b.price = Null THEN -1
                 ELSE a.price[1] - b.price[1]
           [] sortOrder = "price-desc" ->
                 IF a.price = Null THEN 1
                 ELSE IF b.price = Null THEN -1
                 ELSE b.price[1] - a.price[1]
           [] OTHER -> 0

\* Array.prototype.sort as the runtime (V8) performs it on fewer than 64
\* elements: binary insertion, which reads only whether compare(pivot, x) < 0.
\* BinarySearch gives the place of pivot among arr[1..right-1].
RECURSIVE BinarySearch(_, _, _, _, _)
BinarySearch(arr, pivot, left, right, sortOrder) ==
    IF left >= right THEN left
    ELSE LET mid == left + ((right - left) \div 2) IN
         IF compare(pivot, arr[mid], sortOrder) < 0
         THEN BinarySearch(arr, pivot, left, mid, sortOrder)
         ELSE BinarySearch(arr, pivot, mid + 1, right, sortOrder)

RECURSIVE InsertionSort(_, _, _)
InsertionSort(arr, start, sortOrder) ==
    IF start > Len(arr) THEN arr
    ELSE LET pivot == arr[start]
             pos == BinarySearch(arr, pivot, 1, start, sortOrder)
         IN  InsertionSort(SubSeq(arr, 1, pos - 1) \o <<pivot>>
                             \o SubSeq(arr, pos, start - 1)
                             \o SubSeq(arr, start + 1, Len(arr)),
                           start + 1, sortOrder)

ArraySort(arr, sortOrder) == InsertionSort(arr, 2, sortOrder)

\* mutant: the element at index to is included
Slice_Inclusive(arr, from, to) ==
    SubSeq(arr, from + 1, IF to + 1 < Len(arr) THEN to + 1 ELSE Len(arr))

\* Array.prototype.slice(from, to) with 0 <= from <= to
Slice(arr, from, to) ==
    SubSeq(arr, from + 1, IF to < Len(arr) THEN to ELSE Len(arr))

\* mutant: the quotient is rounded down
CeilDiv_Floor(total, pageSize) == total \div pageSize

\* Math.ceil(total / pageSize)
CeilDiv(total, pageSize) == (total + pageSize - 1) \div pageSize

\* mutant: the offset is computed from page instead of page - 1
Offset_FromPage(page, pageSize) == page * pageSize

Offset(page, pageSize) == (page - 1) * pageSize

\* the list-view projection of a record
ListItem(p) ==
    [id |-> p.id, name |-> p.name, mainImage |-> p.mainImage, price |-> p.price,
     category |-> p.category, featured |-> p.featured, isNew |-> p.isNew,
     onSale |-> p.onSale, available |-> p.available]

\* mutant: the availability filter is skipped
Filtered_IgnoresAvailable(recs, filters) ==
    LET byCategory ==
            IF filters.category # Undefined
            THEN SelectSeq(recs, LAMBDA p : p.category = filters.category[1])
            ELSE recs
    IN  IF filters.featured # Undefined
        THEN SelectSeq(byCategory, LAMBDA p : p.featured = filters.featured[1])
        ELSE byCategory

\* the three filter steps
Filtered(recs, filters) ==
    LET byCategory ==
            IF filters.category # Undefined
            THEN SelectSeq(recs, LAMBDA p : p.category = filters.category[1])
            ELSE recs
        byAvailable ==
            IF filters.available # Undefined
            THEN SelectSeq(byCategory, LAMBDA p : p.available = filters.available[1])
            ELSE byCategory
    IN  IF filters.featured # Undefined
        THEN SelectSeq(byAvailable, LAMBDA p : p.featured = filters.featured[1])
        ELSE byAvailable

\* mutant: getAll hands out the array that holds the store's entries, so the
\* sort in place reorders the store
SortedInPlace_SharedArray(recs, products) == products

\* the store's entries after the array obtained from getAll has been sorted in
\* place into products: Array.from copied the values, the Map keeps its order
SortedInPlace(recs, products) == recs

productList(recs, cid, query) ==
    LET validation == listQuerySchema(query) IN
    IF ~validation.success
    THEN Outcome(ServiceError("VALIDATION_ERROR", 400), Undefined, recs, cid)
    ELSE
        LET filters == validation.data[1]
            sortOrder == IF filters.sort # Undefined THEN filters.sort[1] ELSE "newest"
            products == ArraySort(Filtered(getAll(recs), filters), sortOrder)
            \* Array.prototype.filter returns a new array: the array of getAll
            \* is the one sorted only if no filter was applied
            unfiltered == /\ filters.category = Undefined
                          /\ filters.available = Undefined
                          /\ filters.featured = Undefined
            stored == IF unfiltered THEN SortedInPlace(recs, products) ELSE recs
            total == Len(products)
            page == IF filters.page # 0 THEN filters.page ELSE 1
            pageSize == IF filters.pageSize # 0 THEN filters.pageSize ELSE 12
            totalPages == CeilDiv(total, pageSize)
            offset == Offset(page, pageSize)
            paginatedProducts == Slice(products, offset, offset + pageSize)
            items == [i \in 1..Len(paginatedProducts) |-> ListItem(paginatedProducts[i])]
        IN  Outcome(NoError,
                    Def([items |-> items,
                         pagination |-> [page |-> page,
                                         pageSize |-> pageSize,
                                         total |-> total,
                                         totalPages |-> totalPages,
                                         hasNext |-> page < totalPages,
                                         hasPrevious |-> page > 1]]),
                    stored, cid)

-----------------------------------------------------------------------------
(* Requests of the model *)

UrlA == "https://cdn.example.com/a.jpg"
UrlB == "https://cdn.example.com/b.jpg"

\* a request body; every key holds Undefined or Def(value)
Body(name, images, price, category, featured, onSale, available, isNew) ==
    [name |-> name,
     description |-> Def(Null),
     mainImage |-> Def(UrlA),
     images |-> images,
     price |-> price,
     category |-> category,
     shortDescription |-> Def(Val("compacto")),
     dimensions |-> Def(Null),
     featured |-> featured,
     onSale |-> onSale,
     available |-> available,
     isNew |-> isNew]

NoBody ==
    Body(Undefined, Undefined, Undefined, Undefined, Undefined, Undefined, Undefined, Undefined)

\* two valid bodies (optional keys absent; every key given, isNew included),
\* an empty name and a category outside the enumeration
CreateBodies ==
    { Body(Def("Mesa"), Undefined, Def(Null), Def("quarto"),
           Undefined, Undefined, Undefined, Undefined),
      Body(Def("Sofa"), Def(<<UrlB>>), Def(Val(250)), Def("sala de estar"),
           Def(TRUE), Def(TRUE), Def(FALSE), Def(FALSE)),
      Body(Def(""), Undefined, Def(Val(250)), Def("quarto"),
           Def(TRUE), Undefined, Undefined, Undefined),
      Body(Def("Mesa"), Undefined, Def(Val(250)), Def("invalid-value"),
           Undefined, Undefined, Undefined, Undefined) }

\* valid bodies without images, with images and with an empty images array,
\* a price that is not positive and a body without the required flags
UpdateBodies ==
    { Body(Def("Sofa"), Undefined, Def(Val(250)), Def("sala de estar"),
           Def(TRUE), Def(TRUE), Def(FALSE), Def(TRUE)),
      Body(Def("Mesa"), Def(<<UrlA>>), Def(Null), Def("quarto"),
           Def(FALSE), Def(FALSE), Def(TRUE), Undefined),
      Body(Def("Sofa"), Def(<<>>), Def(Val(250)), Def("sala de estar"),
           Def(TRUE), Def(TRUE), Def(FALSE), Undefined),
      Body(Def("Mesa"), Undefined, Def(Val(0)), Def("quarto"),
           Def(TRUE), Def(TRUE), Def(TRUE), Undefined),
      Body(Def("Mesa"), Undefined, Def(Null), Def("quarto"),
           Undefined, Undefined, Undefined, Undefined) }

RawIds == 0..MaxId

\* list requests: every sort with every page and page size; the filters; and
\* requests that the schema refuses
PagingQueries ==
    { Query(Undefined, sort, page, pageSize, Undefined, Undefined) :
        sort \in {Undefined} \cup {Def(v) : v \in SORT_VALUES},
        page \in {Undefined} \cup {Def(n) : n \in 1..MaxPage},
        pageSize \in {Undefined} \cup {Def(n) : n \in PAGE_SIZES} }

FilterQueries ==
    { Query(category, Def("price-asc"), Undefined, Undefined, available, featured) :
        category \in {Undefined, Def("quarto")},
        available \in {Undefined, Def("true"), Def("false")},
        featured \in {Undefined, Def("true"), Def("false")} }

InvalidQueries ==
    { Query(Def("invalid-value"), Undefined, Undefined, Undefined, Undefined, Undefined),
      Query(Undefined, Def("cheapest"), Undefined, Undefined, Undefined, Undefined),
      Query(Undefined, Undefined, Def(0), Undefined, Undefined, Undefined),
      Query(Undefined, Undefined, Undefined, Def(20), Undefined, Undefined) }

\* flags sent as strings other than "true" and "false"
CoercionQueries ==
    { Query(Undefined, Undefined, Undefined, Undefined, available, featured) :
        available \in {Undefined, Def("1"), Def("")},
        featured \in {Undefined, Def("1"), Def("")} }

ListQueries == PagingQueries \cup FilterQueries \cup InvalidQueries \cup CoercionQueries

\* the bodies of the records a listed store starts with: featured or not, with
\* and without a price
ListBodies ==
    { Body(Def(np[1]), Undefined, Def(np[2]), Def(IF f THEN "quarto" ELSE "sala de estar"),
           Def(f), Undefined, Def(np[2] # Null), Undefined) :
        np \in { <<"Sofa", Null>>, <<"Mesa", Val(100)>>, <<"Armario", Val(250)>> },
        f \in BOOLEAN }

\* the body of the records that fill a listed store up
FillerBody ==
    Body(Def("Mesa"), Undefined, Def(Val(100)), Def("sala de estar"),
         Undefined, Undefined, Undefined, Undefined)

\* the number of filler records of a paged store: one and two pages of
\* DEFAULT_PAGE_SIZE
FillerCounts == {DEFAULT_PAGE_SIZE, 2 * DEFAULT_PAGE_SIZE}

\* the store left by creating a record from each body in turn, two an hour
SeededStore(bodies) ==
    [i \in 1..Len(bodies) |->
        newProduct(i, createSchema(bodies[i]).data[1], ToISOString(i \div 2))]

SeqsUpTo(S, n) == UNION { [1..k -> S] : k \in 0..n }

\* stores of up to MaxVaried freely chosen records
SmallStores == { SeededStore(first) : first \in SeqsUpTo(ListBodies, MaxVaried) }

\* stores of one and two full pages, alone or after one freely chosen record
PagedStores ==
    { SeededStore(first \o [i \in 1..k |-> FillerBody]) :
        first \in SeqsUpTo(ListBodies, 1), k \in FillerCounts }

\* a catalog of 13 products, 5 of them featured, with three names, three
\* prices and no price, two categories, created two an hour
ScenarioFeatured == {3, 5, 6, 10, 13}
ScenarioBody(i) ==
    Body(Def(CASE i % 3 = 0 -> "Sofa" [] i % 3 = 1 -> "Armario" [] OTHER -> "Mesa"),
         Undefined,
         Def(CASE i % 4 = 0 -> Null [] i % 4 = 1 -> Val(100) [] i % 4 = 2 -> Val(250)
               [] OTHER -> Val(40)),
         Def(IF i % 3 = 0 THEN "quarto" ELSE "sala de estar"),
         Def(i \in ScenarioFeatured), Undefined, Def(i % 2 = 0), Undefined)

ScenarioStore == SeededStore([i \in 1..13 |-> ScenarioBody(i)])

ListStores == SmallStores \cup PagedStores \cup {ScenarioStore}

\* the instants at which the clock is read: the epoch, one hour later, and
\* 30 days, 30 days and one hour, and 31 days after the epoch
Instants == {0, 1, NEW_DAYS * HOURS_PER_DAY, NEW_DAYS * HOURS_PER_DAY + 1,
             (NEW_DAYS + 1) * HOURS_PER_DAY}

-----------------------------------------------------------------------------
(* Controller: one action per handler *)

Idle == [op |-> "idle", rawId |-> 0, body |-> NoBody, query |-> NoQuery,
         error |-> NoError, status |-> 0, forwarded |-> FALSE, data |-> Undefined]

\* try { data = await service(...); res.status(ok).json(successResponse(data)) }
\* catch (error) { if (isServiceError(error)) res.status(error.statusCode).json(...)
\*                 else next(error) }
Answer(op, rawId, body, query, out, okStatus) ==
    [op |-> op, rawId |-> rawId, body |-> body, query |-> query, error |-> out.error,
     status |-> IF out.error = NoError THEN okStatus
                ELSE IF isServiceError(out.error) THEN out.error.statusCode
                ELSE 0,
     forwarded |-> out.error # NoError /\ ~isServiceError(out.error),
     data |-> out.value]

getHandler(rawId) ==
    LET out == productGet(records, currentId, rawId) IN
    /\ call = Idle
    /\ records' = out.records
    /\ currentId' = out.currentId
    /\ call' = Answer("get", rawId, NoBody, NoQuery, out, 200)
    /\ UNCHANGED <<now, createdIds, untouched>>
    /\ UNCHANGED <<catalog, uiLast, requests>>

createHandler(body) ==
    LET out == productCreate(records, currentId, body, now) IN
    /\ call = Idle
    /\ out.currentId <= MaxId
    /\ records' = out.records
    /\ currentId' = out.currentId
    /\ call' = Answer("create", 0, body, NoQuery, out, 201)
    /\ createdIds' = IF out.error = NoError
                     THEN Append(createdIds, out.value[1].id)
                     ELSE createdIds
    /\ untouched' = IF out.error = NoError
                    THEN Append(untouched, out.value[1])
                    ELSE untouched
    /\ UNCHANGED now
    /\ UNCHANGED <<catalog, uiLast, requests>>

updateHandler(rawId, body) ==
    LET out == productUpdate(records, currentId, rawId, body, now) IN
    /\ call = Idle
    /\ records' = out.records
    /\ currentId' = out.currentId
    /\ call' = Answer("update", rawId, body, NoQuery, out, 200)
    /\ untouched' = IF out.error = NoError
                    THEN SelectSeq(untouched, LAMBDA r : r.id # rawId)
                    ELSE untouched
    /\ UNCHANGED <<now, createdIds>>
    /\ UNCHANGED <<catalog, uiLast, requests>>

deleteHandler(rawId) ==
    LET out == productDelete(records, currentId, rawId) IN
    /\ call = Idle
    /\ records' = out.records
    /\ currentId' = out.currentId
    /\ call' = Answer("delete", rawId, NoBody, NoQuery, out, 200)
    /\ untouched' = IF out.error = NoError
                    THEN SelectSeq(untouched, LAMBDA r : r.id # rawId)
                    ELSE untouched
    /\ UNCHANGED <<now, createdIds>>
    /\ UNCHANGED <<catalog, uiLast, requests>>

listHandler(query) ==
    LET out == productList(records, currentId, query) IN
    /\ call = Idle
    /\ records' = out.records
    /\ currentId' = out.currentId
    /\ call' = Answer("list", 0, NoBody, query, out, 200)
    /\ UNCHANGED <<now, createdIds, untouched>>
    /\ UNCHANGED <<catalog, uiLast, requests>>

\* the response has been sent; the next request is taken
Reply ==
    /\ call # Idle
    /\ call' = Idle
    /\ UNCHANGED <<records, currentId, now, createdIds, untouched>>
    /\ UNCHANGED <<catalog, uiLast, requests>>

\* time passes between two requests
Tick(t) ==
    /\ call = Idle
    /\ t > now
    /\ now' = t
    /\ UNCHANGED <<records, currentId, call, createdIds, untouched>>
    /\ UNCHANGED <<catalog, uiLast, requests>>

-----------------------------------------------------------------------------
(* Concurrently issued requests *)

\* the slots of the requests that are being served at the same time
Slots == {"r1", "r2"}

FreeSlot == [pc |-> "free", op |-> "none", rawId |-> 0, body |-> NoBody,
             error |-> NoError, value |-> Undefined]

NoRequests == [s \in Slots |-> FreeSlot]

\* a request that has arrived and waits for its handler to be called
Request(op, rawId, body) ==
    [pc |-> "issued", op |-> op, rawId |-> rawId, body |-> body,
     error |-> NoError, value |-> Undefined]

ConcCreateBody ==
    Body(Def("Mesa"), Undefined, Def(Null), Def("quarto"),
         Undefined, Undefined, Undefined, Undefined)

ConcUpdateBody ==
    Body(Def("Sofa"), Undefined, Def(Val(250)), Def("sala de estar"),
         Def(TRUE), Def(TRUE), Def(FALSE), Def(TRUE))

\* the requests issued concurrently: every operation, on the first two ids
ConcRequests ==
    {Request("create", 0, ConcCreateBody), Request("list", 0, NoBody)}
      \cup {Request(op, rawId, NoBody) : op \in {"get", "delete"}, rawId \in 1..2}
      \cup {Request("update", rawId, ConcUpdateBody) : rawId \in 1..2}

\* mutant: productUpdate awaits between getById and productStore.update
Turns_UpdateAwaits(op) == IF op = "update" THEN 2 ELSE 1

\* the number of turns of the event loop a service call is spread over: the
\* service functions are async functions without an await, and the store's
\* methods are synchronous, so a call runs to its end in the turn that starts it
Turns(op) == 1

\* the service call of a request, on the store as it is when the call runs
Run(r, recs, cid, t) ==
    CASE r.op = "create" -> productCreate(recs, cid, r.body, t)
      [] r.op = "update" -> productUpdate(recs, cid, r.rawId, r.body, t)
      [] r.op = "delete" -> productDelete(recs, cid, r.rawId)
      [] r.op = "get" -> productGet(recs, cid, r.rawId)
      [] OTHER -> productList(recs, cid, NoQuery)

\* a request arrives while the others are in flight
issue(s, r) ==
    /\ requests[s].pc = "free"
    /\ requests' = [requests EXCEPT ![s] = r]
    /\ UNCHANGED <<records, currentId, now, call, createdIds, untouched, catalog, uiLast>>

\* the event loop runs the next turn of the request in slot s: the handler
\* calls the service, which runs up to its next await or to its end; a call
\* resumed after its existence check writes with productStore.update, which
\* returns undefined when the record is gone
serve(s) ==
    LET r == requests[s]
        out == Run(r, records, currentId, now)
        yields == r.pc = "issued" /\ Turns(r.op) > 1 /\ out.error = NoError
        done == IF r.pc = "checked" /\ ~exists(records, r.rawId)
                THEN Outcome(NoError, Undefined, records, currentId)
                ELSE out
    IN  /\ r.pc \in {"issued", "checked"}
        /\ out.currentId <= MaxId
        /\ IF yields
           THEN /\ requests' = [requests EXCEPT ![s].pc = "checked"]
                /\ UNCHANGED <<records, currentId>>
           ELSE /\ records' = done.records
                /\ currentId' = done.currentId
                /\ requests' = [requests EXCEPT ![s].pc = "served",
                                                ![s].error = done.error,
                                                ![s].value = done.value]
        /\ UNCHANGED <<now, call, createdIds, untouched, catalog, uiLast>>

\* the response of the request in slot s is sent
respond(s) ==
    /\ requests[s].pc = "served"
    /\ requests' = [requests EXCEPT ![s] = FreeSlot]
    /\ UNCHANGED <<records, currentId, now, call, createdIds, untouched, catalog, uiLast>>


-----------------------------------------------------------------------------
(* The catalog page: useCatalogStore, CatalogFilters, useProductList *)

\* the category options of the filter, the page sizes of the pagination
\* control, the sort options and the view modes
CATEGORIES ==
    {"Sala de estar", "Quarto", "Cozinha", "Escritório", "Banheiro", "Área externa"}
PAGE_SIZE_OPTIONS == {12, 24, 36, 48}
\* the options of the sort control that are chosen: two of SORT_OPTIONS
UiSorts == {"newest", "price-asc"}
VIEW_MODES == {"grid", "list"}
\* window.scrollY as the scroll listener reports it
ScrollPositions == {0, 100}

ProductFilters(category, available, featured) ==
    [category |-> category, available |-> available, featured |-> featured]

initialState ==
    [filters |-> ProductFilters(Undefined, Undefined, Undefined),
     sort |-> "newest",
     page |-> 1,
     pageSize |-> 12,
     viewMode |-> "grid",
     scrollPosition |-> 0]

\* the filters CatalogFilters hands to onFiltersChange: the current filters
\* with the category selected, or with one of the two checkboxes toggled
FilterChanges(filters) ==
    { [filters EXCEPT !.category = c] : c \in {Undefined} \cup {Def(x) : x \in CATEGORIES} }
    \cup { [filters EXCEPT !.available = a] : a \in {Undefined, Def(TRUE)} }
    \cup { [filters EXCEPT !.featured = f] : f \in {Undefined, Def(TRUE)} }

\* a boolean of the request parameters as the HTTP client writes it in the URL
WireFlag(x) == IF x = Undefined THEN Undefined ELSE Def(IF x[1] THEN "true" ELSE "false")

\* productService.list({ ...filters, sort, page, pageSize })
CatalogQuery(state) ==
    Query(state.filters.category, Def(state.sort), Def(state.page), Def(state.pageSize),
          WireFlag(state.filters.available), WireFlag(state.filters.featured))

\* useProductList: the answer to the list request of a catalog state
Fetched(state) ==
    Answer("list", 0, NoBody, CatalogQuery(state),
           productList(records, currentId, CatalogQuery(state)), 200)

\* set(partial): the store takes the new state, the page renders again and
\* useProductList fetches the listing of the new state
StoreSet(action, state) ==
    /\ catalog' = state
    /\ uiLast' = [action |-> action, pastFirstPage |-> catalog.page > 1]
    /\ call' = Fetched(state)
    /\ UNCHANGED <<records, currentId, now, createdIds, untouched, requests>>

setFilters(filters) ==
    StoreSet("setFilters", [catalog EXCEPT !.filters = filters, !.page = 1])

setSort(sort) ==
    StoreSet("setSort", [catalog EXCEPT !.sort = sort, !.page = 1])

setPage(page) ==
    StoreSet("setPage", [catalog EXCEPT !.page = page])

\* mutant: the page is kept when the page size changes
setPageSize_KeepsPage(pageSize) ==
    StoreSet("setPageSize", [catalog EXCEPT !.pageSize = pageSize])

setPageSize(pageSize) ==
    LET firstItemIndex == (catalog.page - 1) * catalog.pageSize
        newPage == (firstItemIndex \div pageSize) + 1
    IN  StoreSet("setPageSize", [catalog EXCEPT !.pageSize = pageSize, !.page = newPage])

setViewMode(viewMode) ==
    StoreSet("setViewMode",
             [catalog EXCEPT !.viewMode = viewMode,
                             !.pageSize = IF viewMode = "grid" THEN 12 ELSE 8,
                             !.page = 1])

\* the query key does not change: nothing is fetched
setScrollPosition(position) ==
    /\ catalog' = [catalog EXCEPT !.scrollPosition = position]
    /\ uiLast' = [action |-> "setScrollPosition", pastFirstPage |-> catalog.page > 1]
    /\ UNCHANGED <<records, currentId, now, call, createdIds, untouched, requests>>

\* mutant: clearFilters leaves the page where it was
clearFilters_KeepsPage ==
    StoreSet("clearFilters",
             [catalog EXCEPT !.filters = ProductFilters(Undefined, Undefined, Undefined)])

clearFilters ==
    StoreSet("clearFilters",
             [catalog EXCEPT !.filters = ProductFilters(Undefined, Undefined, Undefined),
                             !.page = 1])

resetPagination ==
    StoreSet("resetPagination", [catalog EXCEPT !.page = 1])

\* the page is loaded again: persist restores filters, sort, viewMode and
\* pageSize; page and scrollPosition start from initialState
rehydrate ==
    StoreSet("rehydrate",
             [initialState EXCEPT !.filters = catalog.filters,
                                  !.sort = catalog.sort,
                                  !.viewMode = catalog.viewMode,
                                  !.pageSize = catalog.pageSize])

\* the catalog page opened on the catalog of 13 products
InitCatalog ==
    /\ records = ScenarioStore
    /\ currentId = Len(records)
    /\ now = (Len(records) \div 2) + 1
    /\ call = Fetched(initialState)
    /\ createdIds = [i \in 1..Len(records) |-> i]
    /\ untouched = records
    /\ catalog = initialState
    /\ uiLast = [action |-> "init", pastFirstPage |-> FALSE]
    /\ requests = NoRequests

NextCatalog ==
    \/ \E filters \in FilterChanges(catalog.filters) : setFilters(filters)
    \/ \E sort \in UiSorts : setSort(sort)
    \/ \E page \in 1..MaxUiPage : setPage(page)
    \/ \E pageSize \in PAGE_SIZE_OPTIONS : setPageSize(pageSize)
    \/ \E viewMode \in VIEW_MODES : setViewMode(viewMode)
    \/ \E position \in ScrollPositions : setScrollPosition(position)
    \/ clearFilters
    \/ resetPagination
    \/ rehydrate

SpecCatalog == InitCatalog /\ [][NextCatalog]_vars

-----------------------------------------------------------------------------
(* The backend alone *)

Init ==
    /\ catalog = initialState
    /\ uiLast = [action |-> "init", pastFirstPage |-> FALSE]
    /\ requests = NoRequests
    /\ records = <<>>
    /\ currentId = 0
    /\ now = 0
    /\ call = Idle
    /\ createdIds = <<>>
    /\ untouched = <<>>

Next ==
    \/ \E rawId \in RawIds : getHandler(rawId)
    \/ \E body \in CreateBodies : createHandler(body)
    \/ \E rawId \in RawIds, body \in UpdateBodies : updateHandler(rawId, body)
    \/ \E rawId \in RawIds : deleteHandler(rawId)
    \/ Reply
    \/ \E t \in Instants : Tick(t)

Spec == Init /\ [][Next]_vars

\* productList over stores of up to two pages and more
InitList ==
    /\ catalog = initialState
    /\ uiLast = [action |-> "init", pastFirstPage |-> FALSE]
    /\ requests = NoRequests
    /\ records \in ListStores
    /\ currentId = Len(records)
    /\ now = (Len(records) \div 2) + 1
    /\ call = Idle
    /\ createdIds = [i \in 1..Len(records) |-> i]
    /\ untouched = records

NextList ==
    \/ \E query \in ListQueries : listHandler(query)
    \/ Reply

SpecList == InitList /\ [][NextList]_vars

\* two requests in flight on an empty store
InitConc ==
    /\ records = <<>>
    /\ currentId = 0
    /\ now = 0
    /\ call = Idle
    /\ createdIds = <<>>
    /\ untouched = <<>>
    /\ catalog = initialState
    /\ uiLast = [action |-> "init", pastFirstPage |-> FALSE]
    /\ requests = NoRequests

NextConc ==
    \/ \E s \in Slots, r \in ConcRequests : issue(s, r)
    \/ \E s \in Slots : serve(s)
    \/ \E s \in Slots : respond(s)

SpecConc == InitConc /\ [][NextConc]_vars

-----------------------------------------------------------------------------
(* Properties of the store and of create / update / delete *)

Succeeded(op) == call.op = op /\ call.error = NoError

\* the record stored under id (the id must be stored)
Stored(recs, id) == recs[IndexOf(recs, id)]

HoursOfDays(d) == d * HOURS_PER_DAY

\* C1: identifiers are never reused: every successful productCreate returns an
\* id strictly greater than the id returned by every earlier productCreate,
\* also when records were deleted in between.
C1_IdsStrictlyIncrease ==
    \A i, j \in 1..Len(createdIds) : i < j => createdIds[i] < createdIds[j]

\* C1 witness: a create has succeeded after an earlier created record was deleted.
C1_Witness ==
    /\ Succeeded("create")
    /\ Len(createdIds) >= 2
    /\ \E i \in 1..(Len(createdIds) - 1) : ~exists(records, createdIds[i])
    /\ call.data[1].id = createdIds[Len(createdIds)]

\* C2: an update whose payload omits images stores the record with the images
\* list it had before the update.
C2_OmittedImagesKept ==
    [][ (/\ call'.op = "update"
         /\ call'.error = NoError
         /\ call'.body.images = Undefined)
        => Stored(records', call'.rawId).images = Stored(records, call'.rawId).images ]_vars

\* C6: on every successful update the stored isNew equals
\* (time of the update - dateCreated <= 30 days) on the exact elapsed time.
C6_IsNewExactThirtyDays ==
    Succeeded("update") =>
        LET r == Stored(records, call.rawId)
        IN  r.isNew = (now - DateGetTime(r.dateCreated) <= HoursOfDays(NEW_DAYS))

\* C7: a record returned by productCreate has isNew = TRUE, and a record
\* created 31 or more days before a successful update has isNew = FALSE after it.
C7_NewOnCreateOldAfter31Days ==
    /\ Succeeded("create") =>
          /\ call.data[1].isNew = TRUE
          /\ Stored(records, call.data[1].id).isNew = TRUE
    /\ Succeeded("update") =>
          LET r == Stored(records, call.rawId)
          IN  now - DateGetTime(r.dateCreated) >= HoursOfDays(NEW_DAYS + 1)
                => r.isNew = FALSE /\ call.data[1].isNew = FALSE

\* C7 witness: a record created exactly 31 days earlier has been updated.
C7_Witness ==
    /\ Succeeded("update")
    /\ now - DateGetTime(Stored(records, call.rawId).dateCreated) = HoursOfDays(NEW_DAYS + 1)
    /\ call.data[1].isNew = FALSE

\* C8: a create, update or delete call that fails with any error leaves the
\* stored records and the identifier counter exactly as they were.
C8_FailedCallChangesNothing ==
    [][ (call'.op \in {"create", "update", "delete"} /\ call'.error # NoError)
        => (records' = records /\ currentId' = currentId) ]_vars

\* C9: the store never holds more than MAX_RECORDS records: add fails with the
\* capacity error when the size is at or above the maximum and inserts the
\* record otherwise.
C9_CapacityBound ==
    /\ count(records) <= MAX_RECORDS
    /\ (call.op = "create" /\ call.error = PlainError) => count(records) >= MAX_RECORDS
    /\ Succeeded("create") => getById(records, call.data[1].id) = call.data
    /\ (call.op = "create" /\ createSchema(call.body).success /\ count(records) < MAX_RECORDS)
          => call.error = NoError

\* C9 witness: a create was refused by add on a full store.
C9_Witness ==
    /\ call.op = "create"
    /\ call.error = PlainError
    /\ count(records) = MAX_RECORDS

\* C10: a valid create issued while the store is at its maximum size fails with
\* a fault that is neither VALIDATION_ERROR nor NOT_FOUND, and the controller
\* forwards it instead of answering 400 or 404.
C10_CapacityFaultForwarded ==
    [][ (/\ call'.op = "create"
         /\ createSchema(call'.body).success
         /\ count(records) >= MAX_RECORDS)
        => (/\ call'.error # NoError
            /\ call'.error.code \notin {"VALIDATION_ERROR", "NOT_FOUND"}
            /\ call'.status \notin {400, 404}
            /\ call'.forwarded
            /\ call'.data = Undefined) ]_vars

\* C10 witness: the controller has forwarded the fault of a valid create.
C10_Witness ==
    /\ call.op = "create"
    /\ createSchema(call.body).success
    /\ call.forwarded
    /\ call.status = 0

\* C11: productDelete on a valid id that is not stored fails with NOT_FOUND and
\* changes nothing; on a stored id it removes exactly that record (every other
\* record stays, in place), exists(id) is false afterwards and a second
\* productDelete of the same id fails with NOT_FOUND.
C11_DeleteRemovesExactlyOne ==
    [][ (call'.op = "delete" /\ paramsSchema(call'.rawId).success) =>
          IF exists(records, call'.rawId)
          THEN /\ call'.error = NoError
               /\ ~exists(records', call'.rawId)
               /\ Len(records') = Len(records) - 1
               /\ \A i \in 1..Len(records) :
                     records[i].id # call'.rawId
                        => getById(records', records[i].id) = Def(records[i])
               /\ currentId' = currentId
               /\ productDelete(records', currentId', call'.rawId).error
                     = ServiceError("NOT_FOUND", 404)
          ELSE /\ call'.error = ServiceError("NOT_FOUND", 404)
               /\ call'.status = 404
               /\ records' = records
               /\ currentId' = currentId ]_vars

\* C11 witness: the second delete of an id that was created and deleted is
\* answered NOT_FOUND, while another record is still stored.
C11_Witness ==
    /\ call.op = "delete"
    /\ call.error = ServiceError("NOT_FOUND", 404)
    /\ \E i \in 1..Len(createdIds) : createdIds[i] = call.rawId
    /\ Len(records) >= 1

\* C12: round trip: productGet called with the id returned by productCreate,
\* with no update or delete of that id in between, succeeds and returns a
\* record equal in every field to the record productCreate returned.
C12_CreateGetRoundTrip ==
    /\ Succeeded("create") =>
          productGet(records, currentId, call.data[1].id).value = call.data
    /\ call.op = "get" =>
          \A i \in 1..Len(untouched) :
              untouched[i].id = call.rawId
                 => call.error = NoError /\ call.data = Def(untouched[i])

\* C12 witness: the record created from the full payload is read back later,
\* after other requests, while a second record is stored.
C12_Witness ==
    /\ Succeeded("get")
    /\ \E i \in 1..Len(untouched) : untouched[i].id = call.rawId
    /\ call.data[1].images = <<UrlB>>
    /\ now > DateGetTime(call.data[1].dateCreated)
    /\ Len(records) = 2
    /\ call.rawId = 2

\* the fields of the update payload that the schema requires
RequiredUpdateFields ==
    {"name", "description", "mainImage", "price", "category", "shortDescription",
     "dimensions", "featured", "onSale", "available"}

EntityFields ==
    {"id", "name", "description", "mainImage", "images", "price", "category",
     "shortDescription", "dimensions", "featured", "isNew", "onSale", "available",
     "dateCreated", "dateModified"}

\* C17: productGet fails with VALIDATION_ERROR when the identifier is not a
\* positive integer, fails with NOT_FOUND when the identifier is valid but no
\* record is stored under it, and otherwise returns the stored entity with all
\* its fields; it never modifies the repository.
C17_GetContract ==
    [][ call'.op = "get" =>
          /\ records' = records
          /\ currentId' = currentId
          /\ IF call'.rawId <= 0
             THEN /\ call'.error = ServiceError("VALIDATION_ERROR", 400)
                  /\ call'.status = 400
                  /\ call'.data = Undefined
             ELSE IF \A i \in 1..Len(records) : records[i].id # call'.rawId
             THEN /\ call'.error = ServiceError("NOT_FOUND", 404)
                  /\ call'.status = 404
                  /\ call'.data = Undefined
             ELSE /\ call'.error = NoError
                  /\ call'.status = 200
                  /\ call'.data = Def(Stored(records, call'.rawId))
                  /\ DOMAIN call'.data[1] = EntityFields ]_vars

\* C17 witness: the full entity of an updated record is returned, with the
\* fields the list projection leaves out.
C17_Witness ==
    /\ Succeeded("get")
    /\ call.status = 200
    /\ call.data[1].dateModified # call.data[1].dateCreated
    /\ call.data[1].shortDescription = Val("compacto")
    /\ call.data[1].images = <<UrlA>>

\* an update payload with a required field missing or a field out of range
RefusedUpdatePayload(b) ==
    \/ \E k \in RequiredUpdateFields : b[k] = Undefined
    \/ Len(b.name[1]) \notin 1..NAME_MAX_LENGTH
    \/ (b.price[1] # Null /\ b.price[1][1] <= 0)
    \/ b.category[1] \notin PRODUCT_CATEGORIES
    \/ ~IsUrl(b.mainImage[1])

\* C18: productUpdate decides its outcome in this order: an invalid identifier
\* gives VALIDATION_ERROR; otherwise an invalid payload (a field other than
\* images missing or out of range) gives VALIDATION_ERROR even when the id is
\* not stored; otherwise an id that is not stored gives NOT_FOUND; otherwise the
\* update succeeds.  In the three error cases the repository is unchanged.
C18_UpdateErrorOrder ==
    [][ call'.op = "update" =>
          IF call'.rawId <= 0
          THEN /\ call'.error = ServiceError("VALIDATION_ERROR", 400)
               /\ records' = records /\ currentId' = currentId
          ELSE IF RefusedUpdatePayload(call'.body)
          THEN /\ call'.error = ServiceError("VALIDATION_ERROR", 400)
               /\ records' = records /\ currentId' = currentId
          ELSE IF \A i \in 1..Len(records) : records[i].id # call'.rawId
          THEN /\ call'.error = ServiceError("NOT_FOUND", 404)
               /\ records' = records /\ currentId' = currentId
          ELSE call'.error = NoError ]_vars

\* C18 witness: an invalid payload sent to a valid id that is not stored has
\* been answered VALIDATION_ERROR, not NOT_FOUND.
C18_Witness ==
    /\ call.op = "update"
    /\ call.rawId > 0
    /\ ~exists(records, call.rawId)
    /\ RefusedUpdatePayload(call.body)
    /\ call.error = ServiceError("VALIDATION_ERROR", 400)
    /\ call.status = 400
    /\ Len(records) >= 1

\* the fields of the creation payload that the schema requires
RequiredCreateFields ==
    {"name", "description", "mainImage", "price", "category", "shortDescription",
     "dimensions"}

\* C19: a record created from a payload that omits featured, onSale, available
\* and images is stored with featured = FALSE, onSale = FALSE, available = TRUE
\* and images empty; every created record has dateCreated = dateModified = the
\* creation time, and the fields present in the payload are stored as given.
C19_CreateDefaults ==
    Succeeded("create") =>
        LET r == Stored(records, call.data[1].id)
            given == call.body
        IN  /\ r.featured = (IF given.featured = Undefined THEN FALSE ELSE given.featured[1])
            /\ r.onSale = (IF given.onSale = Undefined THEN FALSE ELSE given.onSale[1])
            /\ r.available = (IF given.available = Undefined THEN TRUE ELSE given.available[1])
            /\ r.images = (IF given.images = Undefined THEN <<>> ELSE given.images[1])
            /\ r.dateCreated = ToISOString(now)
            /\ r.dateModified = ToISOString(now)
            /\ \A k \in RequiredCreateFields : r[k] = given[k][1]

\* C19 witness: a record has been created, some time after the epoch, from the
\* payload that omits the three flags and images.
C19_Witness ==
    /\ Succeeded("create")
    /\ call.body.featured = Undefined
    /\ call.body.onSale = Undefined
    /\ call.body.available = Undefined
    /\ call.body.images = Undefined
    /\ now > 0
    /\ LET r == Stored(records, call.data[1].id)
       IN  /\ ~r.featured /\ ~r.onSale /\ r.available
           /\ r.images = <<>>
           /\ DateGetTime(r.dateCreated) = now

\* C22: a product is new exactly while it was created in the last 30 days:
\* at every moment the isNew value that productGet returns for a stored record
\* is TRUE if and only if the record's dateCreated is at most 30 days before
\* that moment, also when the record has not been updated since creation.
C22_IsNewTracksAge ==
    Succeeded("get") =>
        call.data[1].isNew
           = (now - DateGetTime(call.data[1].dateCreated) <= HoursOfDays(NEW_DAYS))

-----------------------------------------------------------------------------
(* Properties of productList *)

\* the validated request of the list call being answered
ListFilters == listQuerySchema(call.query).data[1]

\* whether record r passes the filters of the validated request f
Passes(r, f) ==
    /\ f.category # Undefined => r.category = f.category[1]
    /\ f.available # Undefined => r.available = f.available[1]
    /\ f.featured # Undefined => r.featured = f.featured[1]

PassingCount(recs, f) == Cardinality({i \in 1..Len(recs) : Passes(recs[i], f)})

MinOf(a, b) == IF a < b THEN a ELSE b
MaxOf(a, b) == IF a > b THEN a ELSE b

\* the pages 1..totalPages of a request, one after the other
RECURSIVE PagesFrom(_, _, _, _)
PagesFrom(recs, query, p, last) ==
    IF p > last THEN <<>>
    ELSE productList(recs, 0, [query EXCEPT !.page = Def(p)]).value[1].items
           \o PagesFrom(recs, query, p + 1, last)

FullListing(recs, query) ==
    PagesFrom(recs, query, 1, call.data[1].pagination.totalPages)

\* a successful answer to a request for the first page
FirstPageListed ==
    /\ Succeeded("list")
    /\ ListFilters.page = 1

\* C3: the number of returned items is
\* min(pageSize, max(0, total - (page-1)*pageSize)), total being the number of
\* records that pass the filters; a page at or beyond total is empty, no error.
C3_ItemsOnPage ==
    /\ call.op = "list" /\ listQuerySchema(call.query).success => call.error = NoError
    /\ Succeeded("list") =>
          LET f == ListFilters
              total == PassingCount(records, f)
          IN  Len(call.data[1].items)
                = MinOf(f.pageSize, MaxOf(0, total - (f.page - 1) * f.pageSize))

\* C3 witness: a page that is cut short by the end of the listing, after a full one.
C3_Witness ==
    /\ Succeeded("list")
    /\ ListFilters.page = 2
    /\ Len(call.data[1].items) = 1
    /\ Len(records) = ListFilters.pageSize + 1

\* C4: in the full sorted listing (all pages in order) every featured record
\* precedes every record that is not featured, whatever the sort.
C4_FeaturedFirst ==
    FirstPageListed =>
        LET all == FullListing(records, call.query)
        IN  \A i, j \in 1..Len(all) :
                (all[i].featured /\ ~all[j].featured) => i < j

\* C4 witness: a featured record created before the others is listed first, and
\* a record that is not featured is left for the second page.
C4_Witness ==
    /\ FirstPageListed
    /\ ListFilters.sort = Def("price-desc")
    /\ call.data[1].pagination.totalPages = 2
    /\ call.data[1].items[1].featured
    /\ call.data[1].items[1].id = 1
    /\ ~call.data[1].items[2].featured

\* C5 (as claimed): under price-asc or price-desc every record with a null
\* price is listed strictly after every record with a price.
C5_NullPriceAfterAllPriced ==
    (FirstPageListed /\ ListFilters.sort \in {Def("price-asc"), Def("price-desc")}) =>
        LET all == FullListing(records, call.query)
        IN  \A i, j \in 1..Len(all) :
                (all[i].price = Null /\ all[j].price # Null) => j < i

\* C5 (amended): under price-asc or price-desc, among the records with the same
\* featured flag, every record with a null price is listed strictly after
\* every record with a price.
C5_NullPriceLastInGroup ==
    (FirstPageListed /\ ListFilters.sort \in {Def("price-asc"), Def("price-desc")}) =>
        LET all == FullListing(records, call.query)
        IN  \A i, j \in 1..Len(all) :
                (/\ all[i].featured = all[j].featured
                 /\ all[i].price = Null
                 /\ all[j].price # Null) => j < i

\* C5 witness: a price-sorted listing in which a record without a price was
\* created before a record of the same group with a price, and is listed after it.
C5_Witness ==
    /\ FirstPageListed
    /\ ListFilters.sort = Def("price-asc")
    /\ \E i, j \in 1..Len(call.data[1].items) :
          /\ i < j
          /\ call.data[1].items[i].featured = call.data[1].items[j].featured
          /\ call.data[1].items[i].price # Null
          /\ call.data[1].items[j].price = Null
          /\ call.data[1].items[j].id < call.data[1].items[i].id

\* C13: the pagination metadata of every successful list response: total is
\* the number of records passing the filters, totalPages is ceil(total /
\* pageSize) (the least n with n * pageSize >= total, so 0 when total is 0),
\* hasNext = (page < totalPages), hasPrevious = (page > 1), and page and
\* pageSize echo the request, 1 and 12 when the request omits them.
C13_PaginationMetadata ==
    Succeeded("list") =>
        LET p == call.data[1].pagination
            total == PassingCount(records, ListFilters)
        IN  /\ p.page = (IF call.query.page = Undefined THEN 1 ELSE call.query.page[1])
            /\ p.pageSize = (IF call.query.pageSize = Undefined THEN 12
                             ELSE call.query.pageSize[1])
            /\ p.total = total
            /\ p.totalPages >= 0
            /\ p.totalPages * p.pageSize >= total
            /\ (p.totalPages - 1) * p.pageSize < total
            /\ total = 0 => p.totalPages = 0
            /\ p.hasNext = (p.page < p.totalPages)
            /\ p.hasPrevious = (p.page > 1)

\* C13 witness: 13 products and a request without page and pageSize:
\* {page 1, pageSize 12, total 13, totalPages 2, hasNext, not hasPrevious}.
C13_Witness ==
    /\ Succeeded("list")
    /\ call.query.page = Undefined
    /\ call.query.pageSize = Undefined
    /\ call.data[1].pagination =
          [page |-> 1, pageSize |-> 12, total |-> 13, totalPages |-> 2,
           hasNext |-> TRUE, hasPrevious |-> FALSE]

\* whether item x may precede item y of the same featured group under sort
InSecondaryOrder(x, y, sort) ==
    CASE sort \in {Undefined, Def("newest")} ->
             DateGetTime(Stored(records, x.id).dateCreated)
                >= DateGetTime(Stored(records, y.id).dateCreated)
      [] sort = Def("name-asc") -> CollationRank(x.name) <= CollationRank(y.name)
      [] sort = Def("name-desc") -> CollationRank(x.name) >= CollationRank(y.name)
      [] sort = Def("price-asc") ->
             y.price = Null \/ (x.price # Null /\ x.price[1] <= y.price[1])
      [] sort = Def("price-desc") ->
             y.price = Null \/ (x.price # Null /\ x.price[1] >= y.price[1])

\* C14: within the featured records and within the records that are not
\* featured, the full listing follows the secondary key: descending dateCreated
\* for newest and for no sort, ascending / descending name for name-asc /
\* name-desc, ascending / descending price for price-asc / price-desc with the
\* records without a price last in the group.  With 13 stored products of
\* which 5 are featured, {page 1, pageSize 12} gives the 5 featured followed by
\* 7 that are not.
C14_SecondaryOrder ==
    FirstPageListed =>
        LET all == FullListing(records, call.query)
            items == call.data[1].items
        IN  /\ \A i, j \in 1..Len(all) :
                  (i < j /\ all[i].featured = all[j].featured)
                     => InSecondaryOrder(all[i], all[j], call.query.sort)
            /\ (/\ Len(records) = 13
                /\ Cardinality({i \in 1..13 : records[i].featured}) = 5
                /\ PassingCount(records, ListFilters) = 13
                /\ ListFilters.pageSize = 12)
               => /\ Len(items) = 12
                  /\ \A i \in 1..5 : items[i].featured
                  /\ \A i \in 6..12 : ~items[i].featured

\* C14 witness: the scenario, default sort: the 5 featured newest first
\* (ids 13, 10, 6, 5, 3), then the 7 newest of the others.
C14_Witness ==
    /\ FirstPageListed
    /\ call.query.sort = Undefined
    /\ ListFilters.pageSize = 12
    /\ Len(call.data[1].items) = 12
    /\ [i \in 1..12 |-> call.data[1].items[i].id]
          = <<13, 10, 6, 5, 3, 12, 11, 8, 9, 7, 4, 2>>

\* a list request with a category, pageSize, page or sort outside its domain
RefusedListQuery(q) ==
    \/ q.category # Undefined /\ q.category[1] \notin
          {"sala de estar", "quarto", "cozinha", "escritório", "banheiro", "área externa"}
    \/ q.pageSize # Undefined /\ q.pageSize[1] \notin {12, 24, 36, 48}
    \/ q.page # Undefined /\ q.page[1] < 1
    \/ q.sort # Undefined /\ q.sort[1] \notin
          {"newest", "name-asc", "name-desc", "price-asc", "price-desc"}

\* C15: a list request whose category is not one of the six values, whose
\* pageSize is not in {12, 24, 36, 48}, whose page is below 1 or whose sort is
\* not one of the five values fails with VALIDATION_ERROR and returns neither
\* items nor pagination.
C15_ListValidation ==
    (call.op = "list" /\ RefusedListQuery(call.query)) =>
        /\ call.error = ServiceError("VALIDATION_ERROR", 400)
        /\ call.status = 400
        /\ call.data = Undefined

\* C15 witness: pageSize 20 asked of a store holding records: VALIDATION_ERROR
\* and no data.
C15_Witness ==
    /\ call.op = "list"
    /\ call.query.pageSize = Def(20)
    /\ Len(records) >= 13
    /\ call.error = ServiceError("VALIDATION_ERROR", 400)
    /\ call.data = Undefined

\* C20: each present filter (category, available, featured) is an equality
\* test and absent filters are not applied: the records listed over all pages
\* are, each once, exactly the stored records r with r.category = category,
\* r.available = available and r.featured = featured for the filters present.
C20_FiltersAreEqualityTests ==
    FirstPageListed =>
        LET all == FullListing(records, call.query)
            f == ListFilters
            wanted == {i \in 1..Len(records) :
                         /\ f.category = Undefined \/ records[i].category = f.category[1]
                         /\ f.available = Undefined \/ records[i].available = f.available[1]
                         /\ f.featured = Undefined \/ records[i].featured = f.featured[1]}
        IN  /\ {all[k].id : k \in 1..Len(all)} = {records[i].id : i \in wanted}
            /\ Len(all) = Cardinality(wanted)
            /\ call.data[1].pagination.total = Cardinality(wanted)
            /\ \A k \in 1..Len(all) : all[k] = ListItem(Stored(records, all[k].id))

\* C20 witness: the three filters together keep one record of the 13 (the
\* featured, available one of category quarto), and each filter alone would
\* keep more.
C20_Witness ==
    /\ FirstPageListed
    /\ call.query.category = Def("quarto")
    /\ call.query.available = Def("true")
    /\ call.query.featured = Def("true")
    /\ Len(records) = 13
    /\ Len(call.data[1].items) = 1
    /\ call.data[1].items[1].id = 6
    /\ Cardinality({i \in 1..13 : records[i].category = "quarto"}) = 4
    /\ Cardinality({i \in 1..13 : records[i].available}) = 6
    /\ Cardinality({i \in 1..13 : records[i].featured}) = 5

\* whether a record whose flag is flag is selected by the wire value wire
SelectedByWire(wire, flag) ==
    \/ wire = Undefined
    \/ wire = Def("true") /\ flag = TRUE
    \/ wire # Undefined /\ wire # Def("true") /\ flag = FALSE

\* C21: the wire values of available and featured: "true" selects only the
\* records whose flag is TRUE, any other string ("false", "1", the empty
\* string) only the records whose flag is FALSE, and an absent parameter
\* selects records whatever the flag.
C21_WireFlagCoercion ==
    /\ call.op = "list" /\ ~RefusedListQuery(call.query) => call.error = NoError
    /\ FirstPageListed =>
          LET all == FullListing(records, call.query)
              q == call.query
          IN  {all[k].id : k \in 1..Len(all)}
                = {records[i].id : i \in
                     {i \in 1..Len(records) :
                        /\ q.category = Undefined \/ records[i].category = q.category[1]
                        /\ SelectedByWire(q.available, records[i].available)
                        /\ SelectedByWire(q.featured, records[i].featured)}}

\* C21 witness: available=1 and featured= (empty) list the records that are
\* neither available nor featured, of a store that holds records of each kind.
C21_Witness ==
    /\ FirstPageListed
    /\ call.query.available = Def("1")
    /\ call.query.featured = Def("")
    /\ Len(call.data[1].items) >= 1
    /\ \A k \in 1..Len(call.data[1].items) :
          ~call.data[1].items[k].available /\ ~call.data[1].items[k].featured
    /\ \E i \in 1..Len(records) : records[i].available
    /\ \E i \in 1..Len(records) : records[i].featured

-----------------------------------------------------------------------------
(* Properties of the catalog page *)

\* C23: pagination is reset whenever the query changes: immediately after
\* setFilters, setSort, setViewMode, clearFilters or resetPagination the page is
\* 1, whatever it was before; setPage changes only page and setScrollPosition
\* only scrollPosition.
C23_PaginationReset ==
    [][ /\ uiLast'.action \in {"setFilters", "setSort", "setViewMode", "clearFilters",
                               "resetPagination"}
           => catalog'.page = 1
        /\ uiLast'.action = "setPage"
           => catalog' = [catalog EXCEPT !.page = catalog'.page]
        /\ uiLast'.action = "setScrollPosition"
           => catalog' = [catalog EXCEPT !.scrollPosition = catalog'.scrollPosition] ]_vars

\* C23 witness: the filters were cleared on a page after the first, and the page is 1.
C23_Witness ==
    /\ uiLast.action = "clearFilters"
    /\ uiLast.pastFirstPage
    /\ catalog.page = 1
    /\ catalog.filters = ProductFilters(Undefined, Undefined, Undefined)

\* C24: setPageSize keeps the approximate position: from page p >= 1 and page
\* size s, setPageSize(n) with n > 0 yields page p' = floor((p-1)*s / n) + 1,
\* so that p' >= 1 and (p'-1)*n <= (p-1)*s < p'*n.
C24_PageSizeKeepsPosition ==
    [][ uiLast'.action = "setPageSize" =>
          LET p == catalog.page
              s == catalog.pageSize
              n == catalog'.pageSize
              q == catalog'.page
          IN  (p >= 1 /\ n > 0) =>
                 /\ q = (((p - 1) * s) \div n) + 1
                 /\ q >= 1
                 /\ (q - 1) * n <= (p - 1) * s
                 /\ (p - 1) * s < q * n ]_vars

\* C24 witness: from page 2 of pages of 48, a page size of 12 has given page 5.
C24_Witness ==
    /\ uiLast.action = "setPageSize"
    /\ uiLast.pastFirstPage
    /\ catalog.pageSize = 12
    /\ catalog.page = 5

\* C25: every pageSize the catalog state reaches (initial state, setViewMode,
\* setPageSize with a value of PAGE_SIZE_OPTIONS) is in {12, 24, 36, 48}, so
\* that the list request it drives is not refused because of pageSize.
C25_PageSizeAccepted ==
    /\ catalog.pageSize \in {12, 24, 36, 48}
    /\ (call.op = "list" /\ call.query.category = Undefined) => call.error = NoError

\* C26: every category the filter of the catalog page puts into the list
\* request is one of the six wire values, so that the request is answered with
\* a listing and not with VALIDATION_ERROR.
C26_UiCategoryAccepted ==
    (call.op = "list" /\ call.query.category # Undefined) =>
        /\ call.query.category[1] \in
              {"sala de estar", "quarto", "cozinha", "escritório", "banheiro", "área externa"}
        /\ call.query.pageSize[1] \in {12, 24, 36, 48} => call.error = NoError


-----------------------------------------------------------------------------
(* Properties of the comparator *)

Sign(n) == IF n < 0 THEN -1 ELSE IF n > 0 THEN 1 ELSE 0

\* C27: for every sort value the comparator of productList is a consistent
\* ordering of the stored records: compare(a, b) and compare(b, a) have
\* opposite signs or are both zero, two records without a price under
\* price-asc and price-desc included, and the comparator is transitive.
C27_ComparatorConsistent ==
    \A sortOrder \in SORT_VALUES :
        /\ \A i, j \in 1..Len(records) :
              Sign(compare(records[i], records[j], sortOrder))
                = -Sign(compare(records[j], records[i], sortOrder))
        /\ \A i, j, k \in 1..Len(records) :
              (/\ compare(records[i], records[j], sortOrder) <= 0
               /\ compare(records[j], records[k], sortOrder) <= 0)
                 => compare(records[i], records[k], sortOrder) <= 0


-----------------------------------------------------------------------------
(* Properties of the pages of a listing *)

\* C28: with the store unchanged and filters, sort and pageSize fixed, the
\* pages 1..totalPages partition the filtered records: no record is listed
\* twice, the listed records are exactly those that pass the filters, and the
\* pages one after the other are the full sorted listing.
C28_PagesPartitionListing ==
    FirstPageListed =>
        LET f == ListFilters
            all == FullListing(records, call.query)
            sorted == ArraySort(Filtered(records, f),
                                IF f.sort # Undefined THEN f.sort[1] ELSE "newest")
        IN  /\ \A i, j \in 1..Len(all) : all[i].id = all[j].id => i = j
            /\ {all[i].id : i \in 1..Len(all)}
                 = {records[i].id : i \in {k \in 1..Len(records) : Passes(records[k], f)}}
            /\ all = [i \in 1..Len(sorted) |-> ListItem(sorted[i])]

\* C28 witness: a listing of 25 records on three pages, the first two full and
\* the third holding the last record.
C28_Witness ==
    /\ FirstPageListed
    /\ call.data[1].pagination.totalPages = 3
    /\ call.data[1].pagination.total = 25
    /\ Len(call.data[1].items) = 12
    /\ Len(FullListing(records, call.query)) = 25


-----------------------------------------------------------------------------
(* The frame of productList *)

\* C29: productList is read-only: for every request, valid or not, the stored
\* records (their set, their field values and their iteration order) and the
\* identifier counter are after the call what they were before it, although
\* the listing is sorted in place on the array obtained from getAll.
C29_ListIsReadOnly ==
    [][(call = Idle /\ call'.op = "list")
          => (records' = records /\ currentId' = currentId)]_vars

\* C29 witness: an unfiltered listing whose first item is not the first
\* stored record has been answered, and the store is in its original order.
C29_Witness ==
    /\ Succeeded("list")
    /\ ListFilters.category = Undefined
    /\ ListFilters.available = Undefined
    /\ ListFilters.featured = Undefined
    /\ Len(call.data[1].items) > 1
    /\ call.data[1].items[1].id # records[1].id
    /\ \A i \in 1..Len(records) : records[i].id = i
    /\ records = untouched


-----------------------------------------------------------------------------
(* Properties of concurrently issued requests *)

\* the service call of the request in slot s ends in this step
Served(s) == requests[s].pc # "served" /\ requests'[s].pc = "served"

\* C30: under any interleaving of concurrently issued create, update, delete,
\* get and list requests each service call makes its check and its mutation in
\* one step (no request is ever between its existence check and its write), a
\* productUpdate that reports success returns the record stored under the id
\* at that moment, never an absent value, and every stored record is keyed by
\* its own id with 1 <= id <= the identifier counter.
C30_CallsAreIndivisible ==
    [][/\ \A s \in Slots : requests'[s].pc # "checked"
       /\ \A s \in Slots :
             (Served(s) /\ requests'[s].op = "update" /\ requests'[s].error = NoError)
                => /\ requests'[s].value # Undefined
                   /\ requests'[s].value = getById(records', requests'[s].rawId)
       /\ \A i, j \in 1..Len(records') :
             /\ records'[i].id = records'[j].id => i = j
             /\ 1 <= records'[i].id /\ records'[i].id <= currentId']_vars

\* C30 witness: an update and a delete of the same record were in flight
\* together; the update ran first and returned the record, the delete then
\* removed it, and neither response has been sent yet.
C30_Witness ==
    /\ requests["r1"].pc = "served" /\ requests["r1"].op = "update"
    /\ requests["r1"].error = NoError /\ requests["r1"].value # Undefined
    /\ requests["r2"].pc = "served" /\ requests["r2"].op = "delete"
    /\ requests["r2"].error = NoError
    /\ requests["r2"].rawId = requests["r1"].rawId
    /\ ~exists(records, requests["r1"].rawId)
    /\ Len(records) = 1

====
